---- MODULE Spec2Model ----
(***************************************************************************)
(* Model of the task cache of task-hookrs (src/src/cache.rs, revision A:   *)
(* every entry is a RefCell<(Task, MutationState)> in a HashMap keyed by   *)
(* the task's uuid) and of the error kinds of src/src/error.rs.            *)
(*                                                                         *)
(* One action per method of TaskCache and TaskCell.  The methods that take *)
(* &mut self (load, reset, refresh, write, set) are enabled only while the *)
(* caller holds no TaskCell, since a TaskCell is a shared borrow of the    *)
(* cache; handles (Ref / RefMut) live no longer than the cell they came    *)
(* from.  query and save (module tw) are the external boundary: each call  *)
(* returns one of the outcomes the boundary can produce.                   *)
(***************************************************************************)
EXTENDS Integers, Sequences, FiniteSets, TLC

VARIABLES cache, ignore, cells, handles, op, ret, calls

vars == <<cache, ignore, cells, handles, op, ret, calls>>

----------------------------------------------------------------------------
(* Bounds of the model *)

NumUuids == 2
MaxQuery == 2
MaxCells == 2
MaxReaders == 2
MaxIgnore == 2

----------------------------------------------------------------------------
(* Data *)

Uuids == 1..NumUuids

TaskStatus == {"Pending", "Completed", "Deleted"}

\* The statuses the tasks of the model take: one that no ignore list of the
\* model names and one that the default ignore list names.
Statuses == {"Pending", "Completed"}

\* A Task: opaque but for its identifier; the status is the field a caller
\* changes through a mutable handle.
Task == [uuid : Uuids, status : Statuses]

uuid(task) == task.uuid

Dirty == "Dirty"
Clean == "Clean"
MutationState == {Dirty, Clean}

ErrorKind == {"ParserError", "ReaderError", "TaskCmdError", "SerializeError",
              "CacheMissError", "DirtyCacheError"}

Ok == "Ok"

\* Outcomes of the external primitives.
QueryErrors == {"TaskCmdError", "ReaderError", "ParserError"}
SaveErrors == {"TaskCmdError", "SerializeError"}

SeqsUpTo(S, n) == UNION {[1..k -> S] : k \in 0..n}

\* query(filter): the outcomes the query primitive can give, Ok(Vec<Task>) or
\* Err(kind).  The tool's database is outside the system (other processes
\* change it), so any batch of tasks can come back.
query(filter) == [res : {Ok}, tasks : SeqsUpTo(Task, MaxQuery)]
                   \cup [res : QueryErrors, tasks : {<<>>}]

\* save(batch): the outcomes the save primitive can give, Ok(()) or Err(kind).
save(batch) == {Ok} \cup SaveErrors

\* The record of one call to the boundary, kept in the log of the operation.
QueryCall(filter, q) ==
  [fn |-> "query", filter |-> filter, batch |-> {}, res |-> q.res, tasks |-> q.tasks]

SaveCall(batch, s) ==
  [fn |-> "save", filter |-> <<>>, batch |-> batch, res |-> s, tasks |-> <<>>]

----------------------------------------------------------------------------
(* Strings are sequences of characters. *)

Str(s) ==
  CASE s = "Pending"   -> <<"P", "e", "n", "d", "i", "n", "g">>
    [] s = "Completed" -> <<"C", "o", "m", "p", "l", "e", "t", "e", "d">>
    [] s = "Deleted"   -> <<"D", "e", "l", "e", "t", "e", "d">>

Upper(ch) ==
  CASE ch = "e" -> "E" [] ch = "n" -> "N" [] ch = "d" -> "D" [] ch = "i" -> "I"
    [] ch = "g" -> "G" [] ch = "o" -> "O" [] ch = "m" -> "M" [] ch = "p" -> "P"
    [] ch = "l" -> "L" [] ch = "t" -> "T"
    [] OTHER -> ch

to_uppercase(s) == [i \in 1..Len(s) |-> Upper(s[i])]

RECURSIVE join(_, _)
join(strs, sep) ==
  IF strs = <<>> THEN <<>>
  ELSE IF Len(strs) = 1 THEN strs[1]
  ELSE strs[1] \o sep \o join(Tail(strs), sep)

\* Mutant of generate_query: the terms are not upper-cased.
generate_query_as_written(ign) ==
  join([i \in 1..Len(ign) |-> <<"-">> \o Str(ign[i])], <<" ">>)

generate_query(ign) ==
  join([i \in 1..Len(ign) |-> to_uppercase(<<"-">> \o Str(ign[i]))], <<" ">>)

----------------------------------------------------------------------------
(* The map of the cache: a function from the cached keys to entries        *)
(* [task, state, flag]; flag is the borrow flag of the entry's RefCell:    *)
(* 0 unborrowed, n > 0 shared by n Refs, -1 borrowed by a RefMut.          *)

EmptyMap == [k \in {} |-> 0]

insert(map, k, e) ==
  [x \in (DOMAIN map) \cup {k} |-> IF x = k THEN e ELSE map[x]]

\* Mutant of task_to_entry: the key is not taken from the task.
task_to_entry_other_key(task) ==
  [key |-> (uuid(task) % NumUuids) + 1,
   cell |-> [task |-> task, state |-> Clean, flag |-> 0]]

task_to_entry(task) ==
  [key |-> uuid(task), cell |-> [task |-> task, state |-> Clean, flag |-> 0]]

\* HashMap::extend with the entries of a sequence of tasks, in order.
RECURSIVE extend(_, _)
extend(map, tasks) ==
  IF tasks = <<>> THEN map
  ELSE LET e == task_to_entry(Head(tasks))
       IN extend(insert(map, e.key, e.cell), Tail(tasks))

dirty(map) == {k \in DOMAIN map : map[k].state = Dirty}

----------------------------------------------------------------------------
(* TaskCache: the methods as functions of the map, the ignore list and the *)
(* outcome the boundary gives when it is called.  Each yields the map      *)
(* after the call, the value returned and the calls made to the boundary.  *)

\* Mutant of new: the argument is dropped.
new_without_ignore(ign) == [cache |-> EmptyMap, ignore |-> <<>>]

new(ign) == [cache |-> EmptyMap, ignore |-> ign]

default == new(<<"Completed", "Deleted">>)

\* Mutants of load: one queries before it clears, so that a failed query
\* leaves the entries; one has no dirty guard; one does not clear at all.
load_query_first(map, ign, q) ==
  IF \E k \in DOMAIN map : map[k].state = Dirty
  THEN [cache |-> map, ret |-> "DirtyCacheError", calls |-> <<>>]
  ELSE [cache |-> IF q.res = Ok THEN extend(EmptyMap, q.tasks) ELSE map,
        ret   |-> q.res,
        calls |-> <<QueryCall(generate_query(ign), q)>>]

load_unguarded(map, ign, q) ==
  [cache |-> IF q.res = Ok THEN extend(EmptyMap, q.tasks) ELSE EmptyMap,
   ret   |-> q.res,
   calls |-> <<QueryCall(generate_query(ign), q)>>]

load_merge(map, ign, q) ==
  IF \E k \in DOMAIN map : map[k].state = Dirty
  THEN [cache |-> map, ret |-> "DirtyCacheError", calls |-> <<>>]
  ELSE [cache |-> IF q.res = Ok THEN extend(map, q.tasks) ELSE map,
        ret   |-> q.res,
        calls |-> <<QueryCall(generate_query(ign), q)>>]

\* Mutant of load: every failure of the query is reported as one kind.
load_one_kind(map, ign, q) ==
  IF \E k \in DOMAIN map : map[k].state = Dirty
  THEN [cache |-> map, ret |-> "DirtyCacheError", calls |-> <<>>]
  ELSE [cache |-> IF q.res = Ok THEN extend(EmptyMap, q.tasks) ELSE EmptyMap,
        ret   |-> IF q.res = Ok THEN Ok ELSE "TaskCmdError",
        calls |-> <<QueryCall(generate_query(ign), q)>>]

load(map, ign, q) ==
  IF \E k \in DOMAIN map : map[k].state = Dirty
  THEN [cache |-> map, ret |-> "DirtyCacheError", calls |-> <<>>]
  ELSE LET cleared == EmptyMap
       IN [cache |-> IF q.res = Ok THEN extend(cleared, q.tasks) ELSE cleared,
           ret   |-> q.res,
           calls |-> <<QueryCall(generate_query(ign), q)>>]

\* Mutant of reset: only the entries without unsaved changes are dropped.
reset_keeps_dirty(map) == [k \in dirty(map) |-> map[k]]

reset(map) == EmptyMap

\* Mutant of write: the filter on the mutation state is lost.
write_every_entry(map, s) ==
  IF DOMAIN map = {}
  THEN [cache |-> map, ret |-> Ok, calls |-> <<>>]
  ELSE [cache |-> map, ret |-> s,
        calls |-> <<SaveCall({map[k].task : k \in DOMAIN map}, s)>>]

\* Mutants of write: one takes the dirty marks off before it knows what save
\* returns; one calls save with an empty batch too.
write_clears_first(map, s) ==
  LET updates == {k \in DOMAIN map : map[k].state = Dirty}
      cleared == [k \in DOMAIN map |-> [map[k] EXCEPT !.state = Clean]]
  IN IF updates = {}
     THEN [cache |-> map, ret |-> Ok, calls |-> <<>>]
     ELSE [cache |-> cleared, ret |-> s,
           calls |-> <<SaveCall({map[k].task : k \in updates}, s)>>]

write_empty_batch(map, s) ==
  LET updates == {k \in DOMAIN map : map[k].state = Dirty}
  IN [cache |-> map, ret |-> s,
      calls |-> <<SaveCall({map[k].task : k \in updates}, s)>>]

write(map, s) ==
  LET updates == {k \in DOMAIN map : map[k].state = Dirty}
  IN IF updates = {}
     THEN [cache |-> map, ret |-> Ok, calls |-> <<>>]
     ELSE [cache |-> map, ret |-> s,
           calls |-> <<SaveCall({map[k].task : k \in updates}, s)>>]

\* Mutant of refresh: the result of write is dropped and load runs anyway.
refresh_load_anyway(map, ign, s, q) ==
  LET w == write(map, s)
      l == load(w.cache, ign, q)
  IN [cache |-> l.cache, ret |-> l.ret, calls |-> w.calls \o l.calls]

refresh(map, ign, s, q) ==
  LET w == write(map, s)
  IN IF w.ret = Ok
     THEN LET l == load(w.cache, ign, q)
          IN [cache |-> l.cache, ret |-> l.ret, calls |-> w.calls \o l.calls]
     ELSE w

\* iter() yields one TaskCell per entry; a cell is named by the key of its entry.
iter(map) == DOMAIN map

\* get_ptr(uuid): Some(cell) as {key}, None as {}.
get_ptr(map, u) == IF u \in DOMAIN map THEN {u} ELSE {}

\* Mutant of set: the map is rebuilt from the task alone.
set_alone(map, task) == extend(EmptyMap, <<task>>)

set(map, task) == extend(map, <<task>>)

----------------------------------------------------------------------------
(* TaskCell: borrow and borrow_mut on the RefCell of the entry. *)

\* RefCell::try_borrow succeeds unless a RefMut is out.
\* Mutant of try_borrow: a shared borrow stops another shared borrow.
try_borrow_alone(flag) == flag = 0

try_borrow(flag) == flag >= 0

\* Mutant of try_borrow_mut: shared borrows do not stop it.
try_borrow_mut_over_refs(flag) == flag >= 0

\* RefCell::try_borrow_mut succeeds only when nothing is borrowed.
try_borrow_mut(flag) == flag = 0

\* Mutant of borrow: a shared borrow marks the entry as borrow_mut does.
borrow_marks(entry) ==
  IF try_borrow(entry.flag)
  THEN [cell |-> [entry EXCEPT !.flag = @ + 1, !.state = Dirty], ret |-> "Some"]
  ELSE [cell |-> entry, ret |-> "None"]

borrow(entry) ==
  IF try_borrow(entry.flag)
  THEN [cell |-> [entry EXCEPT !.flag = @ + 1], ret |-> "Some"]
  ELSE [cell |-> entry, ret |-> "None"]

\* Mutant of borrow_mut: the mutation state is left as it was.
borrow_mut_unmarked(entry) ==
  IF try_borrow_mut(entry.flag)
  THEN [cell |-> [entry EXCEPT !.flag = -1], ret |-> "Some"]
  ELSE [cell |-> entry, ret |-> "None"]

borrow_mut(entry) ==
  IF try_borrow_mut(entry.flag)
  THEN [cell |-> [entry EXCEPT !.flag = -1, !.state = Dirty], ret |-> "Some"]
  ELSE [cell |-> entry, ret |-> "None"]

----------------------------------------------------------------------------
(* State.                                                                  *)
(*   cache, ignore  the fields of the TaskCache                            *)
(*   cells          per key, the number of TaskCells the caller holds for  *)
(*                  the entry at that key                                  *)
(*   handles        per key, the Refs and RefMuts the caller obtained from *)
(*                  those cells and has not dropped                        *)
(*   op, ret, calls the last operation, what it returned and the calls it  *)
(*                  made to the boundary                                   *)

NoHandle == [reads |-> 0, muts |-> 0]

\* The ignore lists the caches of the model are constructed with.
IgnoreLists == {<<>>, default.ignore}

Init ==
  /\ \E ign \in IgnoreLists :
        /\ cache = new(ign).cache
        /\ ignore = new(ign).ignore
        /\ op = [name |-> "new", args |-> <<ign>>]
  /\ cells = [k \in Uuids |-> 0]
  /\ handles = [k \in Uuids |-> NoHandle]
  /\ ret = Ok
  /\ calls = <<>>

\* The outcomes the boundary can give to the calls an operation makes; where
\* the operation does not call a primitive, its outcome is immaterial and one
\* stands for all.
AnySave == Ok
AnyQuery == [res |-> Ok, tasks |-> <<>>]

Called(fn, r) == \E i \in 1..Len(r.calls) : r.calls[i].fn = fn

SaveOutcomes(map) ==
  IF Called("save", write(map, AnySave)) THEN save({map[k].task : k \in dirty(map)})
  ELSE {AnySave}

QueryOutcomes(r, ign) ==
  IF Called("query", r) THEN query(generate_query(ign)) ELSE {AnyQuery}

RECURSIVE Sum(_, _)
Sum(f, S) == IF S = {} THEN 0
             ELSE LET x == CHOOSE y \in S : TRUE IN f[x] + Sum(f, S \ {x})

\* A method taking &mut self can be called only while no TaskCell is alive
\* (a TaskCell borrows the cache), hence while no handle is.
Exclusive == \A k \in Uuids : cells[k] = 0

Finish(name, args, r) ==
  /\ op' = [name |-> name, args |-> args]
  /\ cache' = r.cache
  /\ ret' = r.ret
  /\ calls' = r.calls
  /\ UNCHANGED <<ignore, cells, handles>>

Load ==
  /\ Exclusive
  /\ \E q \in QueryOutcomes(load(cache, ignore, AnyQuery), ignore) :
        Finish("load", <<>>, load(cache, ignore, q))

Reset ==
  /\ Exclusive
  /\ Finish("reset", <<>>, [cache |-> reset(cache), ret |-> Ok, calls |-> <<>>])

Write ==
  /\ Exclusive
  /\ \E s \in SaveOutcomes(cache) : Finish("write", <<>>, write(cache, s))

Refresh ==
  /\ Exclusive
  /\ \E s \in SaveOutcomes(cache) :
       \E q \in QueryOutcomes(refresh(cache, ignore, s, AnyQuery), ignore) :
         Finish("refresh", <<>>, refresh(cache, ignore, s, q))

Set ==
  /\ Exclusive
  /\ \E task \in Task :
        Finish("set", <<task>>, [cache |-> set(cache, task), ret |-> Ok, calls |-> <<>>])

\* The caller keeps the cell a lookup gives (found = {key}), if it gives one.
TakeCell(name, u, found) ==
  /\ Sum(cells, Uuids) < MaxCells
  /\ op' = [name |-> name, args |-> <<u>>]
  /\ ret' = IF found # {} THEN "Some" ELSE "None"
  /\ calls' = <<>>
  /\ cells' = [k \in Uuids |-> IF k \in found THEN cells[k] + 1 ELSE cells[k]]
  /\ UNCHANGED <<cache, ignore, handles>>

GetPtr ==
  \E u \in Uuids : TakeCell("get_ptr", u, get_ptr(cache, u))

\* The caller takes from iter() the cell of one entry.
Iter ==
  \E u \in iter(cache) : TakeCell("iter", u, {u})

\* A cell is dropped once the handles obtained from it are: the last cell of
\* an entry goes only when no handle to the entry is left.
DropCell ==
  \E k \in Uuids :
    /\ cells[k] > 0
    /\ cells[k] > 1 \/ handles[k] = NoHandle
    /\ cells' = [cells EXCEPT ![k] = @ - 1]
    /\ op' = [name |-> "drop_cell", args |-> <<k>>]
    /\ ret' = Ok
    /\ calls' = <<>>
    /\ UNCHANGED <<cache, ignore, handles>>

\* An operation through a cell of the entry at key k that leaves entry e there.
CellOp(name, k, e, r, h) ==
  /\ cells[k] > 0
  /\ cache' = [cache EXCEPT ![k] = e]
  /\ handles' = [handles EXCEPT ![k] = h]
  /\ op' = [name |-> name, args |-> <<k>>]
  /\ ret' = r
  /\ calls' = <<>>
  /\ UNCHANGED <<ignore, cells>>

Borrow ==
  \E k \in DOMAIN cache :
    LET r == borrow(cache[k])
    IN /\ handles[k].reads < MaxReaders
       /\ CellOp("borrow", k, r.cell, r.ret,
                 IF r.ret = "Some" THEN [handles[k] EXCEPT !.reads = @ + 1]
                 ELSE handles[k])

BorrowMut ==
  \E k \in DOMAIN cache :
    LET r == borrow_mut(cache[k])
    IN /\ handles[k].muts < MaxReaders
       /\ CellOp("borrow_mut", k, r.cell, r.ret,
                 IF r.ret = "Some" THEN [handles[k] EXCEPT !.muts = @ + 1]
                 ELSE handles[k])

\* TaskCell::cache: the back reference to the cache the cell belongs to.
OwningCache ==
  \E k \in DOMAIN cache :
    CellOp("cache", k, cache[k], "Ref", handles[k])

\* The caller writes a field of the task through a RefMut it holds.
DerefMut ==
  \E k \in DOMAIN cache : \E st \in Statuses :
    /\ handles[k].muts > 0
    /\ st # cache[k].task.status
    /\ CellOp("deref_mut", k, [cache[k] EXCEPT !.task.status = st], Ok, handles[k])

\* Dropping a Ref gives its share back.
DropRef ==
  \E k \in DOMAIN cache :
    /\ handles[k].reads > 0
    /\ CellOp("drop_ref", k, [cache[k] EXCEPT !.flag = @ - 1], Ok,
              [handles[k] EXCEPT !.reads = @ - 1])

\* Dropping a RefMut leaves the RefCell unborrowed.
DropRefMut ==
  \E k \in DOMAIN cache :
    /\ handles[k].muts > 0
    /\ CellOp("drop_ref_mut", k, [cache[k] EXCEPT !.flag = @ + 1], Ok,
              [handles[k] EXCEPT !.muts = @ - 1])

Next ==
  \/ Load
  \/ Reset
  \/ Write
  \/ Refresh
  \/ Set
  \/ GetPtr
  \/ Iter
  \/ DropCell
  \/ OwningCache
  \/ Borrow
  \/ BorrowMut
  \/ DerefMut
  \/ DropRef
  \/ DropRefMut

Spec == Init /\ [][Next]_vars

----------------------------------------------------------------------------
(* Vocabulary of the properties.  In an action formula the unprimed        *)
(* variables are the state before the operation named by op' and the       *)
(* primed ones the state after it.                                         *)

Did(name) == op'.name = name

Ids(tasks) == {uuid(tasks[i]) : i \in 1..Len(tasks)}

DirtyTasks(map) == {map[k].task : k \in dirty(map)}

SaveCalls(log) == {i \in 1..Len(log) : log[i].fn = "save"}
QueryCalls(log) == {i \in 1..Len(log) : log[i].fn = "query"}

AllCallsOk(log) == \A i \in 1..Len(log) : log[i].res = Ok

----------------------------------------------------------------------------
(* C1.  Set(task) marks the entry dirty: after Set(task) the entry at the  *)
(* task's identifier is Dirty, whether or not the key was cached before,   *)
(* and a Write that comes next passes that task to the save primitive.     *)
(* Stated as the claim has it; the code leaves the entry Clean.            *)

C1_SetMarksDirty ==
  [][ /\ Did("set") =>
           LET t == op'.args[1]
           IN /\ uuid(t) \in DOMAIN cache'
              /\ cache'[uuid(t)].state = Dirty
      /\ op.name = "set" /\ Did("write") =>
           \E i \in SaveCalls(calls') : op.args[1] \in calls'[i].batch
    ]_vars

(* C2.  Write clears the dirty marks on success: after a Write that        *)
(* returns Ok no entry is Dirty, and a second Write right after it makes   *)
(* no save call and returns Ok.  Stated as the claim has it; the code      *)
(* never changes a mark in write.                                          *)

C2_WriteClearsDirty ==
  [][ /\ Did("write") /\ ret' = Ok => dirty(cache') = {}
      /\ op.name = "write" /\ ret = Ok /\ Did("write") =>
           calls' = <<>> /\ ret' = Ok
    ]_vars

(* C3.  Refresh succeeds whenever every call it makes to the boundary      *)
(* succeeds, dirty entries or not, and then the cache holds exactly the    *)
(* query result, all Clean; and a Load right after a successful Write does *)
(* not fail with DirtyCacheError.  Stated as the claim has it.             *)

C3_RefreshSucceeds ==
  [][ /\ Did("refresh") /\ AllCallsOk(calls') =>
           /\ ret' = Ok
           /\ \E i \in QueryCalls(calls') :
                /\ DOMAIN cache' = Ids(calls'[i].tasks)
                /\ cache' = extend(EmptyMap, calls'[i].tasks)
      /\ op.name = "write" /\ ret = Ok /\ Did("load") => ret' # "DirtyCacheError"
    ]_vars

(* C4.  A failed Load leaves the cache unchanged: when no entry is Dirty   *)
(* and the query fails, the map after Load equals the map before it.       *)
(* Stated as the claim has it.                                             *)

C4_FailedLoadUnchanged ==
  [][ Did("load") /\ dirty(cache) = {} /\ ret' \in QueryErrors => cache' = cache ]_vars

(* C4, amended.  When no entry is Dirty and the query fails, Load returns  *)
(* the error of the query and leaves the map empty: the entries were       *)
(* cleared before the query was issued.                                    *)

C4_FailedLoadEmpties ==
  [][ Did("load") /\ dirty(cache) = {} /\ (\E i \in QueryCalls(calls') : calls'[i].res # Ok) =>
        /\ ret' \in QueryErrors
        /\ ret' = calls'[1].res
        /\ cache' = EmptyMap
    ]_vars

C4_Witness ==
  /\ op.name = "load"
  /\ ret \in QueryErrors
  /\ Len(calls) = 1 /\ calls[1].fn = "query" /\ calls[1].res = ret
  /\ cache = EmptyMap

(* C5.  Dirty guard on Load: with at least one Dirty entry, Load returns   *)
(* DirtyCacheError, makes no call to the boundary and leaves every entry,  *)
(* the dirty ones and their marks included, as it was.                     *)

C5_DirtyGuard ==
  [][ Did("load") /\ dirty(cache) # {} =>
        /\ ret' = "DirtyCacheError"
        /\ calls' = <<>>
        /\ cache' = cache
    ]_vars

C5_Witness ==
  /\ op.name = "load"
  /\ ret = "DirtyCacheError"
  /\ calls = <<>>
  /\ dirty(cache) # {}
  /\ \E k \in DOMAIN cache : cache[k].state = Clean

(* C6.  Write persists exactly the dirty set: with at least one Dirty      *)
(* entry, Write makes exactly one call to the boundary, a save whose batch *)
(* is the set of the tasks of the Dirty entries: the task of no Clean      *)
(* entry is in it and no Dirty entry is left out, whatever its status and  *)
(* whatever the ignore list.                                               *)

C6_WriteSavesDirtySet ==
  [][ Did("write") /\ dirty(cache) # {} =>
        /\ Len(calls') = 1
        /\ calls'[1].fn = "save"
        /\ calls'[1].batch = DirtyTasks(cache)
        /\ \A k \in DOMAIN cache :
             cache[k].task \in calls'[1].batch <=> cache[k].state = Dirty
    ]_vars

\* A Write under the default ignore list that saved a Completed task and
\* left a Clean entry out.
C6_Witness ==
  /\ op.name = "write"
  /\ ignore = default.ignore
  /\ Len(calls) = 1 /\ calls[1].fn = "save"
  /\ \E t \in calls[1].batch : t.status = "Completed"
  /\ \E k \in DOMAIN cache : cache[k].state = Clean /\ cache[k].task \notin calls[1].batch

(* C7.  Load is a full replace: after a Load that returns Ok the keys of   *)
(* the map are the identifiers of the tasks the query returned, every      *)
(* entry is Clean and holds a returned task under its own identifier, and  *)
(* an identifier cached before that the query did not return is gone.      *)

C7_LoadReplaces ==
  [][ Did("load") /\ ret' = Ok =>
        /\ Len(calls') = 1 /\ calls'[1].fn = "query"
        /\ DOMAIN cache' = Ids(calls'[1].tasks)
        /\ \A k \in DOMAIN cache' :
             /\ cache'[k].state = Clean
             /\ uuid(cache'[k].task) = k
             /\ \E i \in 1..Len(calls'[1].tasks) : calls'[1].tasks[i] = cache'[k].task
        /\ \A k \in DOMAIN cache : k \notin Ids(calls'[1].tasks) => k \notin DOMAIN cache'
    ]_vars

\* A successful Load whose result left an identifier out of the map.
C7_Witness ==
  /\ op.name = "load"
  /\ ret = Ok
  /\ Len(calls) = 1 /\ calls[1].tasks # <<>>
  /\ DOMAIN cache = Ids(calls[1].tasks)
  /\ DOMAIN cache # Uuids

(* C8.  Refresh ordering: in a Refresh a save call comes before a query    *)
(* call; when the save of its Write fails, no query is issued, the map is  *)
(* as before and Refresh returns the error the save gave.                  *)

C8_RefreshOrder ==
  [][ Did("refresh") =>
        /\ \A i \in SaveCalls(calls'), j \in QueryCalls(calls') : i < j
        /\ (\E i \in SaveCalls(calls') : calls'[i].res # Ok) =>
             /\ QueryCalls(calls') = {}
             /\ cache' = cache
             /\ ret' = calls'[1].res
             /\ ret' \in SaveErrors
    ]_vars

\* A Refresh whose save failed.
C8_Witness ==
  /\ op.name = "refresh"
  /\ Len(calls) = 1 /\ calls[1].fn = "save" /\ calls[1].res \in SaveErrors
  /\ ret = calls[1].res
  /\ dirty(cache) # {}

(* C9.  Dirty on mutable borrow: a borrow_mut that returns a handle leaves *)
(* the entry Dirty at once; the entry stays Dirty, with the same task,     *)
(* when the handle is dropped, and through every operation but a Set or a  *)
(* Reset; and a Write passes the task of every Dirty entry to save.        *)

C9_DirtyOnBorrowMut ==
  [][ /\ Did("borrow_mut") /\ ret' = "Some" => cache'[op'.args[1]].state = Dirty
      /\ Did("drop_ref_mut") =>
           /\ cache'[op'.args[1]].state = Dirty
           /\ cache'[op'.args[1]].task = cache[op'.args[1]].task
      /\ ~ Did("set") /\ ~ Did("reset") => dirty(cache) \subseteq dirty(cache')
      /\ Did("write") =>
           \A k \in dirty(cache) :
              \E i \in SaveCalls(calls') : cache[k].task \in calls'[i].batch
    ]_vars

\* A mutable handle was dropped and its entry is Dirty and unborrowed.
C9_Witness ==
  /\ op.name = "drop_ref_mut"
  /\ cache[op.args[1]].state = Dirty
  /\ cache[op.args[1]].flag = 0
  /\ handles[op.args[1]] = NoHandle

(* C10.  Borrow exclusivity: while a mutable handle to an entry is out,    *)
(* every borrow and borrow_mut on that entry, through whichever cell,      *)
(* returns None and changes nothing; so an entry never has a mutable       *)
(* handle out together with any other handle.                              *)

C10_BorrowExclusive ==
  [][ /\ \A k \in Uuids :
           handles[k].muts > 0 /\ (Did("borrow") \/ Did("borrow_mut")) /\ op'.args = <<k>> =>
             /\ ret' = "None"
             /\ handles' = handles
             /\ cache' = cache
      /\ \A k \in Uuids :
           handles'[k].muts > 0 => handles'[k].muts = 1 /\ handles'[k].reads = 0
    ]_vars

\* With a mutable handle out, a borrow through a second cell returned None.
C10_Witness ==
  \E k \in Uuids :
    /\ handles[k] = [reads |-> 0, muts |-> 1]
    /\ cells[k] >= 2
    /\ op = [name |-> "borrow", args |-> <<k>>]
    /\ ret = "None"

(* C11.  Reset clears unconditionally: from any state, with Dirty entries  *)
(* or without, Reset returns without an error, calls nothing and leaves a  *)
(* map with no entry; a Load that comes next does not fail with            *)
(* DirtyCacheError: it issues its query and returns what the query gives,  *)
(* Ok when the query succeeds, although no Write was made.                 *)

C11_ResetClears ==
  [][ /\ Did("reset") =>
           /\ ret' = Ok
           /\ calls' = <<>>
           /\ DOMAIN cache' = {}
      /\ op.name = "reset" /\ Did("load") =>
           /\ ret' # "DirtyCacheError"
           /\ Len(calls') = 1 /\ calls'[1].fn = "query"
           /\ ret' = calls'[1].res
           /\ calls'[1].res = Ok => cache' = extend(EmptyMap, calls'[1].tasks)
    ]_vars

\* A Reset has emptied the map.
C11_Witness ==
  /\ op.name = "reset"
  /\ ret = Ok
  /\ cache = EmptyMap

(* C12.  A failed Write clears nothing: when the save call of Write fails, *)
(* Write returns the error of the save, and the map is as before: every    *)
(* entry that was Dirty is still cached and still Dirty, and no entry and  *)
(* no mark has changed.                                                    *)

C12_FailedWriteKeeps ==
  [][ Did("write") /\ (\E i \in SaveCalls(calls') : calls'[i].res # Ok) =>
        /\ Len(calls') = 1
        /\ ret' = calls'[1].res
        /\ ret' \in SaveErrors
        /\ dirty(cache) \subseteq dirty(cache')
        /\ \A k \in dirty(cache) : cache'[k].task = cache[k].task
        /\ cache' = cache
    ]_vars

\* A Write whose save failed, with a Dirty and a Clean entry in the map.
C12_Witness ==
  /\ op.name = "write"
  /\ ret \in SaveErrors
  /\ Len(calls) = 1 /\ calls[1].fn = "save" /\ calls[1].res = ret
  /\ dirty(cache) # {}
  /\ calls[1].batch = DirtyTasks(cache)
  /\ \E k \in DOMAIN cache : cache[k].state = Clean

(* C13.  Write with no Dirty entry is a no-op: it returns Ok, makes no     *)
(* call to the boundary and leaves the map as it was.                      *)

C13_WriteNoDirtyNoop ==
  [][ Did("write") /\ dirty(cache) = {} =>
        /\ ret' = Ok
        /\ calls' = <<>>
        /\ cache' = cache
    ]_vars

\* A Write over a map that has entries, none Dirty.
C13_Witness ==
  /\ op.name = "write"
  /\ ret = Ok
  /\ calls = <<>>
  /\ DOMAIN cache # {}
  /\ dirty(cache) = {}

(* C14.  Key invariant: in every reachable state, after any sequence of    *)
(* new, load, set, reset, write, refresh, borrows and writes through a     *)
(* mutable handle to a field other than the identifier, every key of the   *)
(* map is the identifier of the task stored at that key.                   *)

C14_KeyInvariant ==
  \A k \in DOMAIN cache : uuid(cache[k].task) = k

\* Two entries, one of them just written through a mutable handle.
C14_Witness ==
  /\ op.name = "deref_mut"
  /\ Cardinality(DOMAIN cache) >= 2
  /\ cache[op.args[1]].state = Dirty
  /\ \A k \in DOMAIN cache : uuid(cache[k].task) = k

----------------------------------------------------------------------------
(* The query string over every ignore list up to a length: caches built    *)
(* with each list, then loaded, set and reset.                             *)

QueryIgnoreLists == SeqsUpTo(TaskStatus, MaxIgnore)

InitQuery ==
  /\ \E ign \in QueryIgnoreLists :
        /\ cache = new(ign).cache
        /\ ignore = new(ign).ignore
        /\ op = [name |-> "new", args |-> <<ign>>]
  /\ cells = [k \in Uuids |-> 0]
  /\ handles = [k \in Uuids |-> NoHandle]
  /\ ret = Ok
  /\ calls = <<>>

NextQuery ==
  \/ Load
  \/ Set
  \/ Reset

SpecQuery == InitQuery /\ [][NextQuery]_vars

\* The format the boundary is promised, written out term by term.
UpperName(s) ==
  CASE s = "Pending"   -> <<"P", "E", "N", "D", "I", "N", "G">>
    [] s = "Completed" -> <<"C", "O", "M", "P", "L", "E", "T", "E", "D">>
    [] s = "Deleted"   -> <<"D", "E", "L", "E", "T", "E", "D">>

RECURSIVE ExpectedQuery(_)
ExpectedQuery(ign) ==
  IF ign = <<>> THEN <<>>
  ELSE LET n == Len(ign)
           front == ExpectedQuery(SubSeq(ign, 1, n - 1))
       IN (IF n = 1 THEN <<>> ELSE front \o <<" ">>) \o <<"-">> \o UpperName(ign[n])

Count(str, ch) == Cardinality({i \in 1..Len(str) : str[i] = ch})

(* C15.  Query-string format: generate_query gives, for every ignore list, *)
(* one term per ignored status, in the order of the list, each a '-' and   *)
(* the upper-cased status name, joined by single spaces with no space in   *)
(* front or behind; the empty list gives the empty string and [Completed,  *)
(* Deleted] gives "-COMPLETED -DELETED".  A Load that passes the dirty     *)
(* guard (one that does not return DirtyCacheError) has issued exactly one *)
(* query, with the string of the ignore list.                              *)

C15_QueryFormat ==
  /\ generate_query(<<>>) = <<>>
  /\ generate_query(<<"Completed", "Deleted">>)
       = <<"-", "C", "O", "M", "P", "L", "E", "T", "E", "D", " ",
           "-", "D", "E", "L", "E", "T", "E", "D">>
  /\ generate_query(ignore) = ExpectedQuery(ignore)
  /\ op.name = "load" /\ ret # "DirtyCacheError" =>
       /\ Len(calls) = 1
       /\ calls[1].fn = "query"
       /\ LET f == calls[1].filter
          IN /\ f = ExpectedQuery(ignore)
             /\ Count(f, "-") = Len(ignore)
             /\ Count(f, " ") = IF ignore = <<>> THEN 0 ELSE Len(ignore) - 1
             /\ f # <<>> => f[1] = "-" /\ f[Len(f)] # " "

\* A Load of a cache built with [Deleted, Completed]: the terms keep the order.
C15_Witness ==
  /\ op.name = "load"
  /\ ignore = <<"Deleted", "Completed">>
  /\ Len(calls) = 1
  /\ calls[1].filter = <<"-", "D", "E", "L", "E", "T", "E", "D", " ",
                         "-", "C", "O", "M", "P", "L", "E", "T", "E", "D">>

(* C16.  Default construction and ignore-list stability: the default cache *)
(* is the empty cache with the ignore list [Completed, Deleted], the same  *)
(* as new([Completed, Deleted]); a new cache is empty and holds the list   *)
(* it was given; and no operation changes the ignore list, so that the     *)
(* accessor gives the list of construction in every state.                 *)

C16_IgnoreStable ==
  [][ /\ default = [cache |-> EmptyMap, ignore |-> <<"Completed", "Deleted">>]
      /\ default = new(<<"Completed", "Deleted">>)
      /\ op.name = "new" => ignore = op.args[1] /\ cache = EmptyMap
      /\ ignore' = ignore
    ]_vars

\* A cache built with the default list, after a Load and a write through a
\* mutable handle: the list is the default list still.
C16_Witness ==
  /\ ignore = <<"Completed", "Deleted">>
  /\ op.name = "deref_mut"
  /\ dirty(cache) # {}

(* C17.  Boundary errors pass through in kind: when the query fails in     *)
(* Load, Load returns the kind the query gave (TaskCmdError, ReaderError   *)
(* or ParserError); when the save fails in Write, Write returns the kind   *)
(* the save gave (TaskCmdError or SerializeError); an error that no call   *)
(* to the boundary gave is a DirtyCacheError, from Load or Refresh; and    *)
(* CacheMissError is never returned.                                       *)

C17_ErrorsPassThrough ==
  [][ /\ Did("load") =>
           \A i \in QueryCalls(calls') :
              calls'[i].res # Ok => ret' = calls'[i].res /\ ret' \in QueryErrors
      /\ Did("write") =>
           \A i \in SaveCalls(calls') :
              calls'[i].res # Ok => ret' = calls'[i].res /\ ret' \in SaveErrors
      /\ ret' \in ErrorKind =>
           \/ \E i \in 1..Len(calls') : calls'[i].res = ret'
           \/ /\ ret' = "DirtyCacheError"
              /\ Did("load") \/ Did("refresh")
              /\ dirty(cache) # {}
      /\ ret' # "CacheMissError"
    ]_vars

\* A Load that returned the ParserError of its query.
C17_Witness ==
  /\ op.name = "load"
  /\ ret = "ParserError"
  /\ Len(calls) = 1 /\ calls[1].fn = "query" /\ calls[1].res = "ParserError"

(* C18.  Borrow results are exact: borrow returns a handle exactly when no *)
(* mutable handle to the entry is out, however many read handles are;      *)
(* borrow_mut returns a handle exactly when no handle of either kind to    *)
(* the entry is out; so once every handle to an entry is dropped, both     *)
(* succeed again.  A handle that is returned is counted, one that is not   *)
(* leaves the counts as they were.                                         *)

C18_BorrowExact ==
  [][ /\ Did("borrow") =>
           LET k == op'.args[1]
           IN /\ ret' = "Some" <=> handles[k].muts = 0
              /\ ret' = "None" <=> handles[k].muts > 0
              /\ handles'[k].reads = handles[k].reads + (IF ret' = "Some" THEN 1 ELSE 0)
              /\ handles'[k].muts = handles[k].muts
      /\ Did("borrow_mut") =>
           LET k == op'.args[1]
           IN /\ ret' = "Some" <=> handles[k] = NoHandle
              /\ ret' = "None" <=> handles[k] # NoHandle
              /\ handles'[k].muts = handles[k].muts + (IF ret' = "Some" THEN 1 ELSE 0)
              /\ handles'[k].reads = handles[k].reads
    ]_vars

\* A second read handle was given while a first one was out.
C18_Witness ==
  \E k \in DOMAIN cache :
    /\ op = [name |-> "borrow", args |-> <<k>>]
    /\ ret = "Some"
    /\ handles[k] = [reads |-> 2, muts |-> 0]
    /\ cache[k].flag = 2

(* C19.  Set changes one entry only: after Set(task), get_ptr of the       *)
(* task's identifier gives a cell, the task of its entry is the given      *)
(* task, the map has exactly one entry of that identifier (an entry it had *)
(* before is replaced), and every entry under another identifier keeps its *)
(* task and its mark.                                                      *)

C19_SetOneEntry ==
  [][ Did("set") =>
        LET t == op'.args[1]
        IN /\ get_ptr(cache', uuid(t)) = {uuid(t)}
           /\ cache'[uuid(t)].task = t
           /\ Cardinality({k \in DOMAIN cache' : uuid(cache'[k].task) = uuid(t)}) = 1
           /\ DOMAIN cache' = DOMAIN cache \cup {uuid(t)}
           /\ \A k \in DOMAIN cache :
                k # uuid(t) =>
                  /\ cache'[k].task = cache[k].task
                  /\ cache'[k].state = cache[k].state
    ]_vars

\* A Set that replaced nothing else: the entry of another identifier is
\* Dirty as it was.
C19_Witness ==
  /\ op.name = "set"
  /\ \E k \in DOMAIN cache :
       /\ k # uuid(op.args[1])
       /\ cache[k].state = Dirty
  /\ cache[uuid(op.args[1])].task = op.args[1]

(* C20.  Read access never dirties: iter, get_ptr, TaskCell::cache, a      *)
(* borrow (Some or None) and a borrow_mut that gives None leave the map    *)
(* with the same keys and every entry with the task and the mark it had;   *)
(* and an entry that was Clean is Dirty after a step only when the step is *)
(* a borrow_mut of that entry that gave Some.                              *)

ReadOnly ==
  \/ Did("iter")
  \/ Did("get_ptr")
  \/ Did("cache")
  \/ Did("borrow")
  \/ Did("borrow_mut") /\ ret' = "None"

====
